---- MODULE Spec2Model ----
(***************************************************************************)
(* The background-grid animation engine of src/app/page.tsx (component     *)
(* Home): grid geometry derived from the viewport, the pointer trail with  *)
(* its idle timer, and the highlight scheduler with its jittered refresh.  *)
(*                                                                         *)
(* Lengths are CSS pixels.  One action is one event handler, timer         *)
(* callback or effect flush, run to completion (the page is single         *)
(* threaded and React applies a handler's state updates as one batch).     *)
(***************************************************************************)
EXTENDS Integers, Sequences, FiniteSets, Bags, TLC

\* ---------------------------------------------------------------- constants

DEFAULT_CELL_SIZE == 90

TRAIL_LIMIT == 5

RANDOM_COLORS ==
  << "accent-a", "accent-b", "accent-c", "accent-d",
     "accent-e", "accent-f", "accent-g", "accent-h" >>

RANDOM_CELL_COUNT == 10

\* ------------------------------------------------------------------- bounds

\* Jittered refresh timeouts that may be pending at once.
MaxJitter == 1

\* Selections of one buildColoredCells run whose draws are explored in full;
\* the selections before them take the cells in row-major order, each at
\* the first draw and with the same id suffix.
MaxFreeDraws == 4

\* Milliseconds Date.now() advances.
MaxClock == 1

\* Runs of buildColoredCells in a behaviour that follows the ids of batches.
MaxBuilds == 2

\* ------------------------------------------------------- environment inputs

\* window.innerHeight / window.innerWidth the host may report.
Viewports ==
  { [h |-> 0, w |-> 180], [h |-> 90, w |-> 180], [h |-> 180, w |-> 90] }

\* What parseFloat yields for the --cell-size custom property: a finite
\* number, or NaN when the property is missing or not a number.
RawCellSizes ==
  { [finite |-> TRUE, value |-> 180], [finite |-> FALSE, value |-> 0] }

\* The same with a negative length, which parseFloat yields for a property
\* such as "-90px".
AnyRawCellSizes == RawCellSizes \cup { [finite |-> TRUE, value |-> 0 - 90] }

\* Viewports of the runs of buildColoredCells that are followed draw by
\* draw: grids of 0x2, 1x2, 2x2, 3x3 and 3x4 cells of DEFAULT_CELL_SIZE.
BuildViewports ==
  { [h |-> 0, w |-> 180], [h |-> 90, w |-> 180], [h |-> 180, w |-> 180],
    [h |-> 270, w |-> 270], [h |-> 270, w |-> 360] }

\* Viewports of the behaviours that follow the ids of successive batches.
IdViewports == { [h |-> 0, w |-> 180], [h |-> 90, w |-> 90], [h |-> 90, w |-> 180] }

\* Values of Math.random().toString(36).slice(2, 8): up to six digits of
\* base 36 (0.5 prints as "0.i").
IdSuffixes == { << "i" >>, << "4", "f", "z", "y", "o", "8" >> }

\* clientX / clientY sample points of pointer events.
PointerCoords == {45, 135}

PointerPositions == { [x |-> px, y |-> py] : px \in PointerCoords, py \in PointerCoords }

\* ------------------------------------------------------------------ helpers

\* The value of a ref, a state or a closure slot that holds nothing.
Null == [null |-> TRUE]

\* idleTimeoutRef.current = null; timer handles are positive integers.
NoHandle == 0

Last(s) == s[Len(s)]

\* Math.ceil(a / b) and Math.floor(a / b) for a >= 0 and b # 0 (a zero
\* result of a negative divisor is -0, which compares and prints as 0).
Ceil(a, b) == IF b > 0 THEN (a + b - 1) \div b ELSE 0 - (a \div (0 - b))

Floor(a, b) == IF b > 0 THEN a \div b ELSE 0 - ((a + (0 - b) - 1) \div (0 - b))

Min(a, b) == IF a < b THEN a ELSE b

Digit == << "0", "1", "2", "3", "4", "5", "6", "7", "8", "9" >>

\* The characters a template literal prints for an integer.
RECURSIVE DecimalString(_)
DecimalString(n) ==
  IF n < 0 THEN << "-" >> \o DecimalString(0 - n)
  ELSE IF n < 10 THEN << Digit[n + 1] >>
  ELSE DecimalString(n \div 10) \o << Digit[(n % 10) + 1] >>

\* The values of Math.floor(Math.random() * n): 0 .. n - 1, and for a
\* negative n the integers n .. -1 and -0.
RandomIndex(n) == IF n > 0 THEN 0..(n - 1) ELSE n..0

\* window.setTimeout returns a handle no pending timer holds.
FreshHandle(timers) == CHOOSE n \in 1..(Cardinality(timers) + 1) : n \notin timers

\* -------------------------------------------------------------------- state

VARIABLES
  phase,                 \* "rendered" (first render done, effects not run),
                         \* "mounted", "unmounted"
  viewport,              \* window.innerHeight / innerWidth
  cssCellSize,           \* parseFloat of the --cell-size property
  gridSize,              \* useState {rows, cols}
  cellSize,              \* useState cellSize
  hoverCell,             \* useState hoverCell (Null or a cell)
  trail,                 \* useState trail, oldest first
  showTrail,             \* useState showTrail
  coloredCells,          \* useState coloredCells
  idleTimeoutRef,        \* idleTimeoutRef.current
  idleTimers,            \* handles of the pending idle timeouts
  trackerCellSize,       \* cellSize captured by handlePointerMove
  gridListenerCellSize,  \* cellSize captured by the installed updateGridSize
  schedDirty,            \* gridSize was set since the scheduler effect ran
  intervalGrid,          \* gridSize captured by the armed interval, or Null
  jitterTimers,          \* bag of gridSizes captured by pending jitter timeouts
  lastEvent,             \* history: last pointer-tracker event
  lastCase,              \* history: the case that event met (see the handlers)
  buildPc,               \* "idle", or "loop" inside the while loop of a
                         \* buildColoredCells run that is followed draw by draw
  loopUsed,              \* used of that run
  loopResult,            \* result of that run
  now,                   \* Date.now()
  committedIds,          \* history: ids of the batches committed before the
                         \* one coloredCells holds
  buildsLeft             \* runs followed draw by draw that may still start

vars ==
  << phase, viewport, cssCellSize, gridSize, cellSize, hoverCell, trail,
     showTrail, coloredCells, idleTimeoutRef, idleTimers, trackerCellSize,
     gridListenerCellSize, schedDirty, intervalGrid, jitterTimers,
     lastEvent, lastCase, buildPc, loopUsed, loopResult, now, committedIds,
     buildsLeft >>

envVars == << viewport, cssCellSize >>

geometryVars == << gridSize, cellSize, gridListenerCellSize, schedDirty >>

trackerVars ==
  << hoverCell, trail, showTrail, idleTimeoutRef, idleTimers,
     lastEvent, lastCase >>

schedulerVars == << coloredCells, intervalGrid, jitterTimers >>

buildVars == << buildPc, loopUsed, loopResult, now, committedIds, buildsLeft >>

\* ------------------------------------------------------------ pure functions

readCellSize(raw) == IF raw.finite THEN raw.value ELSE DEFAULT_CELL_SIZE

\* The object updateGridSize passes to setGridSize.
updateGridSize(vp, size) ==
  [rows |-> Ceil(vp.h, size), cols |-> Ceil(vp.w, size)]

\* nextCell of handlePointerMove.
nextCellOf(pos, size) ==
  [row |-> Floor(pos.y, size), col |-> Floor(pos.x, size)]

SameCell(a, b) == a.row = b.row /\ a.col = b.col

\* TrailUpdate without the shift of the oldest entry.
TrailUpdateNoShift(prev, nextCell) ==
  IF Len(prev) = 0 THEN << nextCell >>
  ELSE IF SameCell(Last(prev), nextCell) THEN prev
  ELSE Append(prev, nextCell)

\* TrailUpdate that takes a cell found anywhere in the trail for a repeat.
TrailUpdateFullDedup(prev, nextCell) ==
  IF Len(prev) = 0 THEN << nextCell >>
  ELSE IF \E i \in 1..Len(prev) : SameCell(prev[i], nextCell) THEN prev
  ELSE LET updated == Append(prev, nextCell)
       IN  IF Len(updated) > TRAIL_LIMIT THEN Tail(updated) ELSE updated

\* TrailUpdate without the comparison with the last entry.
TrailUpdateNoDedup(prev, nextCell) ==
  LET updated == Append(prev, nextCell)
  IN  IF Len(updated) > TRAIL_LIMIT THEN Tail(updated) ELSE updated

\* The updater handlePointerMove passes to setTrail.
TrailUpdate(prev, nextCell) ==
  IF Len(prev) = 0 THEN << nextCell >>
  ELSE IF SameCell(Last(prev), nextCell) THEN prev
  ELSE LET updated == Append(prev, nextCell)
       IN  IF Len(updated) > TRAIL_LIMIT THEN Tail(updated) ELSE updated

\* IdleCollapse that keeps the oldest entry.
IdleCollapseOldest(prev) == IF Len(prev) # 0 THEN << prev[1] >> ELSE << >>

\* IdleCollapse that empties the trail.
IdleCollapseEmpty(prev) == << >>

\* The updater the idle timeout passes to setTrail.
IdleCollapse(prev) == IF Len(prev) # 0 THEN << Last(prev) >> ELSE << >>

\* ClearIdle without the clearTimeout call.
ClearIdleSkipped(timers, ref) == timers

\* if (idleTimeoutRef.current !== null) window.clearTimeout(...)
ClearIdle(timers, ref) == IF ref # NoHandle THEN timers \ {ref} ELSE timers

\* SetIdleTimeout that schedules nothing.
SetIdleTimeoutDropped(timers, handle) == timers

\* window.setTimeout(callback, 180): the timer with the new handle is pending.
SetIdleTimeout(timers, handle) == timers \cup {handle}

\* The key `${row}-${col}` of the used set.
CellKey(row, col) == DecimalString(row) \o << "-" >> \o DecimalString(col)

Degenerate(g) == g.rows = 0 \/ g.cols = 0

\* TargetCount that selects every cell of the grid.
TargetCountAllCells(g) == g.rows * g.cols

\* TargetCount without the cap at totalCells.
TargetCountUncapped(g) == RANDOM_CELL_COUNT

\* targetCount of buildColoredCells.
TargetCount(g) == Min(RANDOM_CELL_COUNT, g.rows * g.cols)

\* The id `${Date.now()}-${result.length}-${suffix}` of a member.
MemberId(time, index, suffix) ==
  DecimalString(time) \o << "-" >> \o DecimalString(index) \o << "-" >> \o suffix

\* NewMember whose tone follows the column of the cell.
NewMemberToneByCell(result, row, col, time, suffix) ==
  [row |-> row, col |-> col,
   tone |-> RANDOM_COLORS[(col % Len(RANDOM_COLORS)) + 1],
   id |-> MemberId(time, Len(result), suffix)]

\* The object the loop pushes to result (its delay, a random number of
\* milliseconds below 2000, is left out: nothing reads it but the style
\* of the rendered cell).
NewMember(result, row, col, time, suffix) ==
  [row |-> row, col |-> col,
   tone |-> RANDOM_COLORS[(Len(result) % Len(RANDOM_COLORS)) + 1],
   id |-> MemberId(time, Len(result), suffix)]

BatchIds(batch) == { batch[i].id : i \in 1..Len(batch) }

\* The number of leading selections of a run that take the cells in
\* row-major order, and the cell the selection after n others then takes.
FixedDraws(g) ==
  IF TargetCount(g) > MaxFreeDraws THEN TargetCount(g) - MaxFreeDraws ELSE 0

RowMajorCell(g, n) == [row |-> n \div g.cols, col |-> n % g.cols]

FixedSuffix == << "i" >>

\* The draws explored after n selections.
DrawExplored(g, n, row, col, suffix) ==
  n < FixedDraws(g) =>
    /\ [row |-> row, col |-> col] = RowMajorCell(g, n)
    /\ suffix = FixedSuffix

\* BuildLoop without the used.has(key) test.
RECURSIVE BuildLoopNoReject(_, _, _, _)
BuildLoopNoReject(g, targetCount, used, result) ==
  IF ~(Len(result) < targetCount) THEN { result }
  ELSE UNION {
         LET tone == RANDOM_COLORS[(Len(result) % Len(RANDOM_COLORS)) + 1]
         IN  BuildLoopNoReject(g, targetCount, used \cup {CellKey(row, col)},
                               Append(result, [row |-> row, col |-> col, tone |-> tone]))
         : row \in RandomIndex(g.rows), col \in RandomIndex(g.cols) }

\* The while loop of buildColoredCells: every result it can end with.  A
\* rejected draw (continue) leaves used and result as they were, so it adds
\* no result of its own.
RECURSIVE BuildLoop(_, _, _, _)
BuildLoop(g, targetCount, used, result) ==
  IF ~(Len(result) < targetCount) THEN { result }
  ELSE UNION {
         LET key == CellKey(row, col)
         IN  IF key \in used THEN {}
             ELSE LET tone == RANDOM_COLORS[(Len(result) % Len(RANDOM_COLORS)) + 1]
                  IN  BuildLoop(g, targetCount, used \cup {key},
                                Append(result, [row |-> row, col |-> col, tone |-> tone]))
         : row \in RandomIndex(g.rows), col \in RandomIndex(g.cols) }

\* The arrays buildColoredCells, closed over gridSize g, may pass to
\* setColoredCells.
buildColoredCells(g) ==
  IF Degenerate(g) THEN { << >> }
  ELSE BuildLoop(g, TargetCount(g), {}, << >>)

\* The cells memo: the cells of the grid in row-major order.
cells(g) ==
  IF Degenerate(g) THEN << >>
  ELSE [n \in 1..(g.rows * g.cols) |->
          [row |-> Floor(n - 1, g.cols),
           col |-> (n - 1) % (IF g.cols > 0 THEN g.cols ELSE 0 - g.cols)]]

Reverse(s) == [i \in 1..Len(s) |-> s[Len(s) + 1 - i]]

\* reversedTrail.findIndex(...) of getCellClass over the trail tr.
HistoryIndex(tr, cell) ==
  LET reversedTrail == Reverse(tr)
      found == { i \in 1..Len(reversedTrail) : SameCell(reversedTrail[i], cell) }
  IN  IF found = {} THEN 0 - 1
      ELSE (CHOOSE i \in found : \A j \in found : i <= j) - 1

\* `hero__grid-cell--trail-${historyIndex}` for historyIndex in 1..4.
TrailClass ==
  << "hero__grid-cell--trail-1", "hero__grid-cell--trail-2",
     "hero__grid-cell--trail-3", "hero__grid-cell--trail-4" >>

\* getCellClass that searches the trail from its oldest entry.
getCellClassOldestFirst(cell) ==
  IF hoverCell = Null \/ Len(trail) = 0 THEN << "hero__grid-cell" >>
  ELSE LET historyIndex == HistoryIndex(Reverse(trail), cell)
       IN  IF historyIndex = 0 - 1 THEN << "hero__grid-cell" >>
           ELSE IF historyIndex = 0
             THEN << "hero__grid-cell", "hero__grid-cell--active" >>
           ELSE IF ~showTrail THEN << "hero__grid-cell" >>
           ELSE IF historyIndex <= 4
             THEN << "hero__grid-cell", "hero__grid-cell--trail", TrailClass[historyIndex] >>
           ELSE << "hero__grid-cell" >>

\* The class names getCellClass returns for a cell, in the rendered state.
getCellClass(cell) ==
  IF hoverCell = Null \/ Len(trail) = 0 THEN << "hero__grid-cell" >>
  ELSE LET historyIndex == HistoryIndex(trail, cell)
       IN  IF historyIndex = 0 - 1 THEN << "hero__grid-cell" >>
           ELSE IF historyIndex = 0
             THEN << "hero__grid-cell", "hero__grid-cell--active" >>
           ELSE IF ~showTrail THEN << "hero__grid-cell" >>
           ELSE IF historyIndex <= 4
             THEN << "hero__grid-cell", "hero__grid-cell--trail", TrailClass[historyIndex] >>
           ELSE << "hero__grid-cell" >>

\* ------------------------------------------------------------------ actions

\* The first render, with the --cell-size property one of raws.
InitOver(raws) ==
  /\ phase = "rendered"
  /\ viewport \in Viewports
  /\ cssCellSize \in raws
  /\ gridSize = [rows |-> 0, cols |-> 0]
  /\ cellSize = readCellSize(cssCellSize)
  /\ hoverCell = Null
  /\ trail = << >>
  /\ showTrail = FALSE
  /\ coloredCells = << >>
  /\ idleTimeoutRef = NoHandle
  /\ idleTimers = {}
  /\ trackerCellSize = 0
  /\ gridListenerCellSize = 0
  /\ schedDirty = FALSE
  /\ intervalGrid = Null
  /\ jitterTimers = EmptyBag
  /\ lastEvent = "none"
  /\ lastCase = "none"
  /\ buildPc = "idle"
  /\ loopUsed = {}
  /\ loopResult = << >>
  /\ now = 0
  /\ committedIds = {}
  /\ buildsLeft = 0

Init == InitOver(RawCellSizes)

\* The effects of the first commit, in declaration order.
Mount ==
  /\ phase = "rendered"
  /\ phase' = "mounted"
  /\ cellSize' = readCellSize(cssCellSize)
  /\ gridListenerCellSize' = cellSize
  /\ gridSize' = updateGridSize(viewport, cellSize)
  /\ trackerCellSize' = cellSize
  /\ \E batch \in buildColoredCells(gridSize) : coloredCells' = batch
  /\ intervalGrid' = IF Degenerate(gridSize) THEN Null ELSE gridSize
  /\ schedDirty' = TRUE
  /\ UNCHANGED << buildVars, envVars, trackerVars, jitterTimers >>

EffectsPending == cellSize # gridListenerCellSize \/ schedDirty

\* The effects of a later commit: the [cellSize] effect when cellSize
\* changed, then the scheduler effect when gridSize was set.
FlushEffects ==
  /\ phase = "mounted"
  /\ EffectsPending
  /\ LET runGrid == cellSize # gridListenerCellSize
     IN  /\ gridListenerCellSize' = cellSize
         /\ gridSize' = IF runGrid THEN updateGridSize(viewport, cellSize) ELSE gridSize
         /\ schedDirty' = runGrid
  /\ IF schedDirty
       THEN /\ \E batch \in buildColoredCells(gridSize) : coloredCells' = batch
            /\ intervalGrid' = IF Degenerate(gridSize) THEN Null ELSE gridSize
       ELSE UNCHANGED << coloredCells, intervalGrid >>
  /\ UNCHANGED << buildVars, phase, envVars, cellSize, trackerVars, trackerCellSize, jitterTimers >>

\* A resize event: the host reports a viewport and the style a cell size;
\* updateCellSize and updateGridSize (as last installed) run.  React runs the
\* effects of a commit before it renders the next update, and a resize event
\* is taken here once they have run.
Resize(vp, raw) ==
  /\ phase = "mounted"
  /\ ~EffectsPending
  /\ viewport' = vp
  /\ cssCellSize' = raw
  /\ cellSize' = readCellSize(raw)
  /\ gridSize' = updateGridSize(vp, gridListenerCellSize)
  /\ schedDirty' = TRUE
  /\ UNCHANGED << buildVars, phase, trackerVars, trackerCellSize, gridListenerCellSize, schedulerVars >>

handlePointerMove(pos) ==
  /\ phase = "mounted"
  /\ pos.x < viewport.w
  /\ pos.y < viewport.h
  /\ LET nextCell == nextCellOf(pos, trackerCellSize)
         cleared == ClearIdle(idleTimers, idleTimeoutRef)
         handle == FreshHandle(cleared)
     IN  /\ hoverCell' = nextCell
         /\ showTrail' = TRUE
         /\ trail' = TrailUpdate(trail, nextCell)
         /\ idleTimeoutRef' = handle
         /\ idleTimers' = SetIdleTimeout(cleared, handle)
  /\ lastEvent' = "move"
  /\ lastCase' = IF Len(trail) > 0 /\ Last(trail) = nextCellOf(pos, trackerCellSize)
                   THEN "repeat"
                 ELSE IF Len(trail) = TRAIL_LIMIT THEN "full"
                 ELSE "append"
  /\ UNCHANGED << buildVars, phase, envVars, geometryVars, trackerCellSize, schedulerVars >>

\* The callback of the idle timeout with handle h.
IdleFire(h) ==
  /\ h \in idleTimers
  /\ idleTimers' = idleTimers \ {h}
  /\ showTrail' = FALSE
  /\ trail' = IdleCollapse(trail)
  /\ lastEvent' = "idle"
  /\ lastCase' = IF Len(trail) > 1 THEN "several" ELSE "single"
  /\ UNCHANGED << buildVars, phase, envVars, geometryVars, trackerCellSize, schedulerVars,
                  hoverCell, idleTimeoutRef >>

\* handlePointerLeave that leaves the idle timeout pending.
handlePointerLeaveNoCancel ==
  /\ phase = "mounted"
  /\ hoverCell' = Null
  /\ trail' = << >>
  /\ showTrail' = FALSE
  /\ lastEvent' = "leave"
  /\ lastCase' = IF idleTimeoutRef \in idleTimers THEN "tracking" ELSE "quiet"
  /\ UNCHANGED << buildVars, phase, envVars, geometryVars, trackerCellSize, schedulerVars,
                  idleTimeoutRef, idleTimers >>

handlePointerLeave ==
  /\ phase = "mounted"
  /\ hoverCell' = Null
  /\ trail' = << >>
  /\ showTrail' = FALSE
  /\ idleTimers' = ClearIdle(idleTimers, idleTimeoutRef)
  /\ lastEvent' = "leave"
  /\ lastCase' = IF idleTimeoutRef \in idleTimers THEN "tracking" ELSE "quiet"
  /\ UNCHANGED << buildVars, phase, envVars, geometryVars, trackerCellSize, schedulerVars,
                  idleTimeoutRef >>

\* The callback of setInterval: schedules the jittered buildColoredCells.
IntervalTick ==
  /\ intervalGrid # Null
  /\ BagCardinality(jitterTimers) < MaxJitter
  /\ jitterTimers' = jitterTimers (+) SetToBag({intervalGrid})
  /\ UNCHANGED << buildVars, phase, envVars, geometryVars, trackerVars, trackerCellSize,
                  coloredCells, intervalGrid >>

\* A jittered timeout fires: buildColoredCells as captured when the interval
\* was armed.  React drops a state update of an unmounted component.
JitterFire(g) ==
  /\ BagIn(g, jitterTimers)
  /\ jitterTimers' = jitterTimers (-) SetToBag({g})
  /\ \E batch \in buildColoredCells(g) :
       coloredCells' = IF phase = "mounted" THEN batch ELSE coloredCells
  /\ UNCHANGED << buildVars, phase, envVars, geometryVars, trackerVars, trackerCellSize,
                  intervalGrid >>

\* Teardown: the cleanups of the effects.
Unmount ==
  /\ phase = "mounted"
  /\ phase' = "unmounted"
  /\ idleTimers' = ClearIdle(idleTimers, idleTimeoutRef)
  /\ intervalGrid' = Null
  /\ UNCHANGED << buildVars, envVars, geometryVars, trackerCellSize, coloredCells, jitterTimers,
                  hoverCell, trail, showTrail, idleTimeoutRef, lastEvent, lastCase >>

\* A pending idle timeout fires.
IdleTimeout == \E h \in idleTimers : IdleFire(h)

Next ==
  \/ Mount
  \/ FlushEffects
  \/ \E vp \in Viewports, raw \in RawCellSizes : Resize(vp, raw)
  \/ \E pos \in PointerPositions : handlePointerMove(pos)
  \/ IdleTimeout
  \/ handlePointerLeave
  \/ IntervalTick
  \/ \E g \in BagToSet(jitterTimers) : JitterFire(g)
  \/ Unmount

Spec == Init /\ [][Next]_vars

\* The pointer tracker with the geometry it reads, without the callbacks of
\* the highlight scheduler's timers: IntervalTick and JitterFire leave every
\* variable of the tracker unchanged and IdleTimeout enabled.
TrackerNext ==
  \/ Mount
  \/ FlushEffects
  \/ \E vp \in Viewports, raw \in RawCellSizes : Resize(vp, raw)
  \/ \E pos \in PointerPositions : handlePointerMove(pos)
  \/ IdleTimeout
  \/ handlePointerLeave
  \/ Unmount

\* The timer service runs the callback of a pending timeout unless the
\* timeout is cleared first.
TrackerFairSpec == Init /\ [][TrackerNext]_vars /\ WF_vars(IdleTimeout)

\* The geometry and the highlight scheduler when the --cell-size property
\* may also hold a negative length; the pointer events are left out.
AnySizeInit == InitOver(AnyRawCellSizes)

AnySizeNext ==
  \/ Mount
  \/ FlushEffects
  \/ \E vp \in Viewports, raw \in AnyRawCellSizes : Resize(vp, raw)
  \/ IntervalTick
  \/ \E g \in BagToSet(jitterTimers) : JitterFire(g)
  \/ Unmount

AnySizeSpec == AnySizeInit /\ [][AnySizeNext]_vars

\* The tracker and the geometry of TrackerFairSpec, without the fairness.
TrackerSpec == Init /\ [][TrackerNext]_vars

\* ------------------------------------- buildColoredCells, draw by draw

\* A call of buildColoredCells up to its while loop; with a degenerate
\* gridSize it commits the empty batch and returns.
BuildStart ==
  /\ phase = "mounted"
  /\ buildPc = "idle"
  /\ buildsLeft > 0
  /\ buildsLeft' = buildsLeft - 1
  /\ IF Degenerate(gridSize)
       THEN /\ coloredCells' = << >>
            /\ committedIds' = committedIds \cup BatchIds(coloredCells)
            /\ UNCHANGED << buildPc, loopUsed, loopResult >>
       ELSE /\ buildPc' = "loop"
            /\ loopUsed' = {}
            /\ loopResult' = << >>
            /\ UNCHANGED << coloredCells, committedIds >>
  /\ UNCHANGED << phase, envVars, geometryVars, trackerVars, trackerCellSize,
                  intervalGrid, jitterTimers, now >>

\* One iteration of the while loop that draws the cell (row, col): continue
\* when its key is in used, else add the key and push the member.
BuildDraw(row, col, suffix) ==
  /\ buildPc = "loop"
  /\ Len(loopResult) < TargetCount(gridSize)
  /\ DrawExplored(gridSize, Len(loopResult), row, col, suffix)
  /\ LET key == CellKey(row, col)
     IN  IF key \in loopUsed
           THEN UNCHANGED << loopUsed, loopResult >>
           ELSE /\ loopUsed' = loopUsed \cup {key}
                /\ loopResult' = Append(loopResult, NewMember(loopResult, row, col, now, suffix))
  /\ UNCHANGED << phase, envVars, geometryVars, trackerVars, trackerCellSize,
                  schedulerVars, buildPc, now, committedIds, buildsLeft >>

BuildDrawStep ==
  \E row \in RandomIndex(gridSize.rows), col \in RandomIndex(gridSize.cols),
     suffix \in IdSuffixes :
    BuildDraw(row, col, suffix)

\* The loop condition fails: setColoredCells(result).
BuildCommit ==
  /\ buildPc = "loop"
  /\ ~(Len(loopResult) < TargetCount(gridSize))
  /\ coloredCells' = loopResult
  /\ committedIds' = committedIds \cup BatchIds(coloredCells)
  /\ buildPc' = "idle"
  /\ UNCHANGED << phase, envVars, geometryVars, trackerVars, trackerCellSize,
                  intervalGrid, jitterTimers, loopUsed, loopResult, now, buildsLeft >>

\* The clock advances by a millisecond.
ClockTick ==
  /\ now < MaxClock
  /\ now' = now + 1
  /\ UNCHANGED << phase, envVars, geometryVars, trackerVars, trackerCellSize,
                  schedulerVars, buildPc, loopUsed, loopResult, committedIds, buildsLeft >>

\* The mounted component before buildColoredCells runs over the gridSize of
\* a viewport of vps, with builds runs to come.
BuildInitOver(vps, builds) ==
  /\ phase = "mounted"
  /\ viewport \in vps
  /\ cssCellSize = [finite |-> FALSE, value |-> 0]
  /\ cellSize = readCellSize(cssCellSize)
  /\ gridSize = updateGridSize(viewport, cellSize)
  /\ hoverCell = Null
  /\ trail = << >>
  /\ showTrail = FALSE
  /\ coloredCells = << >>
  /\ idleTimeoutRef = NoHandle
  /\ idleTimers = {}
  /\ trackerCellSize = cellSize
  /\ gridListenerCellSize = cellSize
  /\ schedDirty = TRUE
  /\ intervalGrid = Null
  /\ jitterTimers = EmptyBag
  /\ lastEvent = "none"
  /\ lastCase = "none"
  /\ buildPc = "idle"
  /\ loopUsed = {}
  /\ loopResult = << >>
  /\ now = 0
  /\ committedIds = {}
  /\ buildsLeft = builds

BuildInit == BuildInitOver(BuildViewports, 1)

BuildNext ==
  \/ BuildStart
  \/ BuildDrawStep
  \/ BuildCommit

BuildSpec == BuildInit /\ [][BuildNext]_vars

\* The loop runs to completion once entered, and among the draws it makes
\* one that is accepted keeps coming while a cell is left to select.
BuildFairSpec ==
  BuildInit /\ [][BuildNext]_vars /\ WF_vars(BuildDrawStep) /\ WF_vars(BuildCommit)

IdInit == BuildInitOver(IdViewports, MaxBuilds)

IdNext ==
  \/ BuildStart
  \/ BuildDrawStep
  \/ BuildCommit
  \/ ClockTick

IdSpec == IdInit /\ [][IdNext]_vars

\* ------------------------------------------------------------------- claims

\* C1: in every reachable state the trail holds at most TRAIL_LIMIT cells.
C1_TrailBounded == Len(trail) <= TRAIL_LIMIT

\* A pointer move to a new cell arrived when the trail was at capacity.
C1_Witness ==
  /\ lastEvent = "move"
  /\ lastCase = "full"
  /\ Len(trail) = TRAIL_LIMIT

\* A step of handlePointerMove.
PointerMoveStep == \E pos \in PointerPositions : handlePointerMove(pos)

\* The trail the claim states for a pointer move to cell c.
C2_Expected(prev, c) ==
  IF prev # << >> /\ Last(prev) = c THEN prev
  ELSE IF Len(prev) + 1 > 5 THEN SubSeq(prev, 2, Len(prev)) \o << c >>
  ELSE prev \o << c >>

C2_Cell(name) ==
  CASE name = "A" -> [row |-> 0, col |-> 0]
    [] name = "B" -> [row |-> 0, col |-> 1]
    [] name = "C" -> [row |-> 0, col |-> 2]
    [] name = "D" -> [row |-> 1, col |-> 0]
    [] name = "E" -> [row |-> 1, col |-> 1]
    [] name = "F" -> [row |-> 1, col |-> 2]

C2_Cells(names) == [i \in 1..Len(names) |-> C2_Cell(names[i])]

\* C2: a pointer move leaves the trail as it was when the new cell equals its
\* last entry, and otherwise appends the new cell (also when the cell occurs
\* at an older position) and, beyond five entries, removes the oldest entry;
\* [A,B,C,D,E] + F gives [B,C,D,E,F] and the moves A,A,B,C give [A,B,C].
C2_MoveTransition ==
  [][PointerMoveStep =>
       /\ trail' = C2_Expected(trail, hoverCell')
       /\ TrailUpdate(C2_Cells(<< "A", "B", "C", "D", "E" >>), C2_Cell("F"))
            = C2_Cells(<< "B", "C", "D", "E", "F" >>)
       /\ TrailUpdate(TrailUpdate(TrailUpdate(TrailUpdate(<< >>,
            C2_Cell("A")), C2_Cell("A")), C2_Cell("B")), C2_Cell("C"))
            = C2_Cells(<< "A", "B", "C" >>)]_vars

\* A move at capacity to a cell that was not last in the trail but occurred
\* at an older position of it: the cell is last now and still occurs before.
C2_Witness ==
  /\ lastEvent = "move"
  /\ lastCase = "full"
  /\ Len(trail) = TRAIL_LIMIT
  /\ Last(trail) = hoverCell
  /\ \E i \in 1..(Len(trail) - 2) : trail[i] = hoverCell

\* C3: in every reachable state no two adjacent entries of the trail are the
\* same cell.
C3_NoAdjacentRepeat ==
  \A i \in 1..(Len(trail) - 1) :
    ~(trail[i].row = trail[i + 1].row /\ trail[i].col = trail[i + 1].col)

\* A pointer move to the cell that was already last in a trail of several
\* entries.
C3_Witness ==
  /\ lastEvent = "move"
  /\ lastCase = "repeat"
  /\ Len(trail) >= 2
  /\ Last(trail) = hoverCell

\* C4: whenever the idle timer fires, showTrail becomes false, the trail
\* becomes the one-element sequence of its last entry, and hoverCell keeps
\* its value, which is not null.
C4_IdleFiring ==
  [][IdleTimeout =>
       /\ showTrail' = FALSE
       /\ Len(trail) >= 1
       /\ trail' = << trail[Len(trail)] >>
       /\ hoverCell' = hoverCell
       /\ hoverCell' # Null]_vars

\* The idle timer fired on a trail of several entries.
C4_Witness ==
  /\ lastEvent = "idle"
  /\ lastCase = "several"
  /\ trail = << hoverCell >>
  /\ showTrail = FALSE

\* C5: after a pointer move, while the component stays mounted and no pointer
\* leave follows, the idle timer eventually fires and leaves showTrail false
\* and the trail with exactly one entry, the cell of the last move.
C5_IdleCollapses ==
  (phase = "mounted" /\ lastEvent = "move")
    ~> \/ lastEvent = "idle" /\ showTrail = FALSE /\ trail = << hoverCell >>
       \/ lastEvent = "leave"
       \/ phase # "mounted"

\* The idle timer fired while the component was mounted, and no pointer
\* event has followed.
C5_Witness ==
  /\ phase = "mounted"
  /\ lastEvent = "idle"
  /\ idleTimers = {}
  /\ Len(trail) = 1

\* C6: after a pointer leave, and until the next pointer move, the trail is
\* empty, hoverCell is null, showTrail is false and no idle timer is pending.
C6_LeaveResets ==
  lastEvent = "leave" =>
    /\ trail = << >>
    /\ hoverCell = Null
    /\ showTrail = FALSE
    /\ idleTimers = {}

\* A pointer leave while the idle timer of the last move was pending.
C6_Witness ==
  /\ lastEvent = "leave"
  /\ lastCase = "tracking"
  /\ idleTimeoutRef # NoHandle

\* C7: at most one idle timer is pending, and it is the one idleTimeoutRef
\* holds, the timer of the most recent pointer move.
C7_OneIdleTimer ==
  /\ Cardinality(idleTimers) <= 1
  /\ idleTimers \subseteq { idleTimeoutRef }

\* A burst of pointer moves that filled the trail: each move but the first
\* arrived while the timer of the move before was pending.
C7_Witness ==
  /\ lastEvent = "move"
  /\ Len(trail) = TRAIL_LIMIT
  /\ showTrail = TRUE
  /\ idleTimers = { idleTimeoutRef }

\* C8: after teardown no timer is pending: the idle timer, the refresh
\* interval and every jittered refresh timeout are cancelled.
C8_NoTimerAfterTeardown ==
  phase = "unmounted" =>
    /\ idleTimers = {}
    /\ intervalGrid = Null
    /\ jitterTimers = EmptyBag

\* C9: once the effects of a geometry change have run, every highlight cell
\* lies in the current grid: row < rows and col < cols.
C9_BatchInCurrentGrid ==
  (phase = "mounted" /\ ~EffectsPending) =>
    \A i \in 1..Len(coloredCells) :
      /\ coloredCells[i].row < gridSize.rows
      /\ coloredCells[i].col < gridSize.cols

\* Grids of up to six cells, beyond those the viewports above produce.
C10_Grids == { [rows |-> r, cols |-> c] : r \in 0..2, c \in 0..3 }

C10_Distinct(batch) ==
  \A i, j \in 1..Len(batch) :
    (batch[i].row = batch[j].row /\ batch[i].col = batch[j].col) => i = j

\* Every batch buildColoredCells can return for a grid of C10_Grids.
C10_AllBatchesDistinct ==
  \A g \in C10_Grids : \A batch \in buildColoredCells(g) : C10_Distinct(batch)

\* C10: no committed highlight batch holds two members with the same cell,
\* and no batch buildColoredCells can return for a grid of C10_Grids does.
C10_BatchCellsDistinct ==
  /\ C10_Distinct(coloredCells)
  /\ C10_AllBatchesDistinct

\* A batch of several members was committed.
C10_Witness ==
  /\ phase = "mounted"
  /\ Len(coloredCells) >= 2

\* The run of buildColoredCells that was followed draw by draw has returned.
BuildReturned == buildPc = "idle" /\ buildsLeft = 0

\* The size the claim states for a batch over grid g.
C11_Size(g) == IF 10 < g.rows * g.cols THEN 10 ELSE g.rows * g.cols

C11_GridCells(g) ==
  { [row |-> r, col |-> c] : r \in 0..(g.rows - 1), c \in 0..(g.cols - 1) }

C11_BatchCells(batch) ==
  { [row |-> batch[i].row, col |-> batch[i].col] : i \in 1..Len(batch) }

\* Every batch buildColoredCells can return for a grid of C10_Grids.
C11_AllBatchSizes ==
  \A g \in C10_Grids : \A batch \in buildColoredCells(g) :
    /\ Len(batch) = C11_Size(g)
    /\ C11_BatchCells(batch) = C11_GridCells(g)

\* C11: the batch buildColoredCells returns has min(10, rows * cols) members
\* whatever it draws: ten over a grid of more than ten cells, every cell of
\* the grid exactly once over a grid of at most ten cells (nine over 3 x 3),
\* and none when rows * cols = 0.
C11_BatchSize ==
  /\ BuildReturned =>
       /\ Len(coloredCells) = C11_Size(gridSize)
       /\ Cardinality(C11_BatchCells(coloredCells)) = Len(coloredCells)
       /\ C11_BatchCells(coloredCells) \subseteq C11_GridCells(gridSize)
       /\ gridSize.rows * gridSize.cols <= 10
            => C11_BatchCells(coloredCells) = C11_GridCells(gridSize)
  /\ C11_AllBatchSizes

\* buildColoredCells returned over the grid of 3 x 3 cells, with nine
\* members.
C11_Witness ==
  /\ BuildReturned
  /\ gridSize = [rows |-> 3, cols |-> 3]
  /\ Len(coloredCells) = 9

\* C12: once entered, the while loop of buildColoredCells ends, with
\* result.length = targetCount and that result committed, when among its
\* draws one of a cell not yet selected keeps coming.
C12_LoopTerminates ==
  (buildPc = "loop")
    ~> /\ buildPc = "idle"
       /\ coloredCells = loopResult
       /\ Len(loopResult) = C11_Size(gridSize)

\* The loop over a grid of at most ten cells with one cell left to select:
\* every draw but that of the last cell is rejected.
C12_Witness ==
  /\ buildPc = "loop"
  /\ gridSize.rows * gridSize.cols <= 10
  /\ Len(loopResult) = (gridSize.rows * gridSize.cols) - 1
  /\ Len(loopResult) >= 3

\* C13: the id of a member of the committed batch differs from the id of
\* every other member of the batch and from every id of a batch committed
\* before, also when both batches were built at the same timestamp.
C13_IdsGloballyUnique ==
  /\ \A i, j \in 1..Len(coloredCells) :
       coloredCells[i].id = coloredCells[j].id => i = j
  /\ BatchIds(coloredCells) \cap committedIds = {}

\* The tone the claim states for the member at 0-based position i.
C14_Tone(i) == RANDOM_COLORS[(i % 8) + 1]

C14_Toned(batch) == \A i \in 1..Len(batch) : batch[i].tone = C14_Tone(i - 1)

\* Every batch buildColoredCells can return for a grid of C10_Grids.
C14_AllBatchesToned ==
  \A g \in C10_Grids : \A batch \in buildColoredCells(g) : C14_Toned(batch)

\* C14: the member at 0-based position i of a batch, committed or under
\* construction, has the tone at position i mod 8 of the palette, whichever
\* cells were drawn and however many draws were rejected.
C14_ToneByPosition ==
  /\ C14_Toned(coloredCells)
  /\ C14_Toned(loopResult)
  /\ C14_AllBatchesToned

\* A committed batch of ten members: the ninth and the tenth have the first
\* and the second tone of the palette again.
C14_Witness ==
  /\ BuildReturned
  /\ Len(coloredCells) = 10
  /\ coloredCells[9].tone = "accent-a"
  /\ coloredCells[10].tone = "accent-b"
  /\ coloredCells[10].col # 0

\* C15: in every rendered state of the mounted component rows and cols are
\* the ceilings of the viewport's height and width over the cellSize of that
\* same state.
C15_GeometryConsistent ==
  phase = "mounted" =>
    /\ gridSize.rows = Ceil(viewport.h, cellSize)
    /\ gridSize.cols = Ceil(viewport.w, cellSize)

\* C16: in every reachable state cellSize is greater than 0, whatever the
\* --cell-size property holds, and rows and cols are not negative.
C16_CellSizePositive ==
  /\ cellSize > 0
  /\ gridSize.rows >= 0
  /\ gridSize.cols >= 0

\* C17: once the effects of a geometry change have run, while rows = 0 or
\* cols = 0 the cell list and the highlight batch are empty, and neither the
\* refresh interval nor a jittered refresh timeout is armed.
C17_DegenerateQuiet ==
  (phase = "mounted" /\ ~EffectsPending /\ Degenerate(gridSize)) =>
    /\ cells(gridSize) = << >>
    /\ coloredCells = << >>
    /\ intervalGrid = Null
    /\ jitterTimers = EmptyBag

\* The cells of the current grid and the cells pointer events can reach.
C18_Cells ==
  { cells(gridSize)[n] : n \in 1..Len(cells(gridSize)) }
    \cup { [row |-> r, col |-> c] : r \in 0..1, c \in 0..1 }

\* The classification the claim states: 0 for active, the rank for
\* trailing, -1 for none.
C18_Expected(cell) ==
  IF trail # << >> /\ cell = trail[Len(trail)] THEN 0
  ELSE IF showTrail /\ \E i \in 1..Len(trail) : trail[i] = cell
    THEN LET recent == CHOOSE i \in 1..Len(trail) :
                         /\ trail[i] = cell
                         /\ \A j \in (i + 1)..Len(trail) : trail[j] # cell
         IN  Len(trail) - recent
  ELSE 0 - 1

\* The class names that stand for a classification.
C18_ClassNames(class) ==
  IF class = 0 THEN << "hero__grid-cell", "hero__grid-cell--active" >>
  ELSE IF class = 0 - 1 THEN << "hero__grid-cell" >>
  ELSE << "hero__grid-cell", "hero__grid-cell--trail", TrailClass[class] >>

\* C18: getCellClass gives a cell the active class when it is the last entry
\* of the trail, whatever showTrail; else, when showTrail is true and the
\* cell occurs in the trail, the trailing class of rank 1..4, the distance
\* of its most recent occurrence from the end of the trail; else the base
\* class only.  At most one cell is active, and none is trailing while
\* showTrail is false.
C18_Classification ==
  phase = "mounted" =>
    /\ \A cell \in C18_Cells :
         /\ C18_Expected(cell) \in (0 - 1)..4
         /\ getCellClass(cell) = C18_ClassNames(C18_Expected(cell))
    /\ Cardinality({ cell \in C18_Cells : Len(getCellClass(cell)) = 2 }) <= 1
    /\ ~showTrail => \A cell \in C18_Cells : Len(getCellClass(cell)) < 3

\* A full trail is shown whose oldest entry, a cell of the current grid, has
\* rank 4, and whose last entry occurs at an older position too.
C18_Witness ==
  /\ phase = "mounted"
  /\ showTrail
  /\ Len(trail) = TRAIL_LIMIT
  /\ \E n \in 1..Len(cells(gridSize)) :
       getCellClass(cells(gridSize)[n]) =
         << "hero__grid-cell", "hero__grid-cell--trail", "hero__grid-cell--trail-4" >>
  /\ \E i \in 1..(Len(trail) - 1) : trail[i] = trail[Len(trail)]

\* C19: a pointer move appends the cell of its position under the cellSize
\* of the current state, the one the grid is rendered with.
C19_MoveUsesCurrentCellSize ==
  [][\A pos \in PointerPositions :
       handlePointerMove(pos) =>
         /\ hoverCell' = nextCellOf(pos, cellSize)
         /\ trail'[Len(trail')] = nextCellOf(pos, cellSize)]_vars

\* C20: while the component lives, hoverCell is null exactly when the trail
\* is empty, hoverCell is the last entry of a trail that is not empty, and
\* showTrail is true only when the trail is not empty and an idle timer is
\* pending.
C20_HoverTrailCoupled ==
  phase # "unmounted" =>
    /\ hoverCell = Null <=> trail = << >>
    /\ trail # << >> => hoverCell = trail[Len(trail)]
    /\ showTrail => (trail # << >> /\ idleTimers # {})

\* After a burst of moves the idle timer fired: the trail holds hoverCell
\* alone, showTrail is false and no timer is pending.
C20_Witness ==
  /\ phase = "mounted"
  /\ lastEvent = "idle"
  /\ lastCase = "several"
  /\ hoverCell # Null
  /\ ~showTrail
  /\ idleTimers = {}

====
